---- MODULE Spec2Model ----
(***************************************************************************)
(* A model of the Koi pond controller (js/koi/pond.js) and of the fish     *)
(* body spine (js/koi/fish/body.js).                                       *)
(*                                                                         *)
(* The pond is modelled statement by statement: Pond.prototype.update is a *)
(* pair of nested loops, and the position inside them is the variable pc   *)
(* with the loop counters fish and other.  Fish are external objects; a    *)
(* fish is an identity 1..created and its update() result is an input.     *)
(***************************************************************************)
EXTENDS Integers, Sequences, FiniteSets, TLC

\* ------------------------------------------------------------------ bounds
\* Largest value Constraint.getCapacity() returns in the model.
MaxCapacity == 4
\* Number of Fish objects the spawner creates over a run.
MaxCreated == 4
\* Number of Pond.update calls over a run.
MaxPondTicks == 2
\* The interpolation factor `time` is a multiple of 1 / TimeDen in [0, 1].
TimeDen == 2
\* Body lengths are the half multiples of RESOLUTION up to MaxHalfSteps / 2.
MaxHalfSteps == 6
\* Number of Body.update calls over a run.
MaxBodyTicks == 2

\* --------------------------------------------------------------- constants
\* Pond.prototype.SPAWN_OVERHEAD
SPAWN_OVERHEAD == 2
\* Body.prototype.RESOLUTION = .14; lengths and coordinates are in hundredths
RESOLUTION == 14
\* Body.prototype.SPRING_START = .9 and SPRING_END = .3, in hundredths
SPRING_START == 90
SPRING_END == 30
\* Math.PI * 2, in phase units of a quarter turn
TwoPi == 4

VARIABLES
    \* ---- Pond (pond.js)
    capacity,     \* this.capacity
    fishes,       \* this.fishes: sequence of fish identities
    created,      \* number of Fish objects constructed so far (identities 1..created)
    pc,           \* position inside Pond.update: "idle" (outside), "outer", "inner", "fish"
    fish,         \* loop counter of the outer loop of Pond.update (0-based)
    other,        \* loop counter of the inner loop of Pond.update (0-based)
    last,         \* the Pond method that returned most recently
    returned,     \* its return value
    \* ---- what the collaborators observed (history of calls made by the pond)
    tickStart,    \* this.fishes when the current / most recent Pond.update began
    interacts,    \* the interact calls of that update, in call order
    updates,      \* the Fish.update calls of that update, in call order, with results
    freeCount,    \* per fish: number of free(atlas) calls over the whole run
    pondTicks,    \* number of Pond.update calls begun
    pondFrames,   \* the calls of the last two Pond.render calls since the pond last changed
    \* ---- Body (body.js)
    spine,          \* this.spine: sequence of Vector2
    spinePrevious,  \* this.spinePrevious
    spacing,        \* this.spacing
    radii,          \* this.radii
    springs,        \* this.springs, in hundredths
    u,              \* this.u
    vCenter,        \* this.vCenter
    vRadii,         \* this.vRadii
    phase,          \* this.phase, in quarter turns
    \* ---- what the callers of the body observed
    bodyLength,     \* the length argument the body was constructed with
    bodyLast,       \* the Body method that returned most recently
    bodyTicks,      \* number of Body.update calls
    bodyFrame,      \* the renderer commands of the last Body.render call since the last tick
    bodyHead,       \* the head argument of the last initializeSpine or update call
    \* ---- which of the two objects the run drives
    scene

pondVars == <<capacity, fishes, created, pc, fish, other, last, returned,
              tickStart, interacts, updates, freeCount, pondTicks, pondFrames>>

bodyState == <<spine, spinePrevious, spacing, radii, springs, u, vCenter, vRadii, phase>>

bodyVars == <<bodyState, bodyLength, bodyLast, bodyTicks, bodyFrame, bodyHead>>

vars == <<pondVars, bodyVars, scene>>

Fish == 1..MaxCreated
Times == 0..TimeDen
Void == "void"

\* the last two frames of a history of rendered frames
LastTwo(frames, frame) ==
    IF frames = <<>> THEN <<frame>> ELSE <<frames[Len(frames)], frame>>

\* ------------------------------------------------------------ Pond (pond.js)

\* a faulty removal: shift() instead of splice(index, 1)
Splice_shift(seq, index) == Tail(seq)

\* a faulty removal: pop() instead of splice(index, 1)
Splice_pop(seq, index) == SubSeq(seq, 1, Len(seq) - 1)

\* Array.prototype.splice(index, 1) on a 0-based index
Splice(seq, index) ==
    [k \in 1..(Len(seq) - 1) |-> IF k <= index THEN seq[k] ELSE seq[k + 1]]

\* this.fishes[index] with a 0-based index
At(seq, index) == seq[index + 1]

\* a faulty call: the fish at the lower index is made the initiator
InteractCall_reversed(f, o) ==
    [initiator |-> At(fishes, o), other |-> At(fishes, f), i |-> o, j |-> f]

\* this.fishes[fish].interact(this.fishes[other], random) with 0-based
\* indices f and o: who is called, with whom, and the two indices
InteractCall(f, o) ==
    [initiator |-> At(fishes, f), other |-> At(fishes, o), i |-> f, j |-> o]

\* a faulty gate: the reserve is counted inclusively
canSpawn_inclusive == Len(fishes) <= capacity - SPAWN_OVERHEAD

canSpawn == Len(fishes) < capacity - SPAWN_OVERHEAD

\* a faulty gate: a full pond still accepts a drop
canDrop_inclusive == Len(fishes) <= capacity

canDrop == Len(fishes) < capacity

\* a faulty insertion: unshift instead of push
addFish_unshift(f) == <<f>> \o fishes

addFish(f) == Append(fishes, f)

\* a faulty loop test: the inner loop stops one short and never reaches index 0
InnerContinues_short(o) == o > 1

\* the loop test `other-- > 0`, on the value before the decrement
InnerContinues(o) == o > 0

\* the loop test `fish-- > 0`, on the value before the decrement
OuterContinues(f) == f > 0

\* new Pond(constraint)
PondInit ==
    /\ capacity \in 0..MaxCapacity
    /\ fishes = <<>>
    /\ created = 0
    /\ pc = "idle"
    /\ fish = 0
    /\ other = 0
    /\ last = "new"
    /\ returned = Void
    /\ tickStart = <<>>
    /\ interacts = <<>>
    /\ updates = <<>>
    /\ freeCount = [f \in Fish |-> 0]
    /\ pondTicks = 0
    /\ pondFrames = <<>>

\* A caller evaluates pond.canSpawn()
CanSpawn ==
    /\ pc = "idle"
    /\ last' = "canSpawn"
    /\ returned' = canSpawn
    /\ UNCHANGED <<capacity, fishes, created, pc, fish, other,
                   tickStart, interacts, updates, freeCount, pondTicks, pondFrames>>

\* A caller evaluates pond.canDrop()
CanDrop ==
    /\ pc = "idle"
    /\ last' = "canDrop"
    /\ returned' = canDrop
    /\ UNCHANGED <<capacity, fishes, created, pc, fish, other,
                   tickStart, interacts, updates, freeCount, pondTicks, pondFrames>>

\* The spawner: pond.addFish(new Fish(...)) right after canSpawn() or
\* canDrop() returned true.
AddFish ==
    /\ pc = "idle"
    /\ last \in {"canSpawn", "canDrop"}
    /\ returned = TRUE
    /\ created < MaxCreated
    /\ created' = created + 1
    /\ fishes' = addFish(created + 1)
    /\ last' = "addFish"
    /\ returned' = Void
    /\ pondFrames' = <<>>
    /\ UNCHANGED <<capacity, pc, fish, other,
                   tickStart, interacts, updates, freeCount, pondTicks>>

\* Pond.update is entered: let fish = this.fishes.length
UpdateBegin ==
    /\ pc = "idle"
    /\ pondTicks < MaxPondTicks
    /\ pondTicks' = pondTicks + 1
    /\ fish' = Len(fishes)
    /\ pc' = "outer"
    /\ tickStart' = fishes
    /\ interacts' = <<>>
    /\ updates' = <<>>
    /\ pondFrames' = <<>>
    /\ UNCHANGED <<capacity, fishes, created, other, last, returned, freeCount>>

\* Outer loop head: fish-- > 0, then let other = fish; or the loop and the
\* method end.
UpdateOuter ==
    /\ pc = "outer"
    /\ fish' = fish - 1
    /\ IF OuterContinues(fish)
       THEN /\ other' = fish - 1
            /\ pc' = "inner"
            /\ UNCHANGED <<last, returned>>
       ELSE /\ pc' = "idle"
            /\ last' = "update"
            /\ returned' = Void
            /\ UNCHANGED other
    /\ UNCHANGED <<capacity, fishes, created,
                   tickStart, interacts, updates, freeCount, pondTicks, pondFrames>>

\* Inner loop: other-- > 0, then this.fishes[fish].interact(this.fishes[other])
UpdateInner ==
    /\ pc = "inner"
    /\ other' = other - 1
    /\ IF InnerContinues(other)
       THEN /\ interacts' = Append(interacts, InteractCall(fish, other - 1))
            /\ pc' = "inner"
       ELSE /\ pc' = "fish"
            /\ UNCHANGED interacts
    /\ UNCHANGED <<capacity, fishes, created, fish, last, returned,
                   tickStart, updates, freeCount, pondTicks, pondFrames>>

\* if (this.fishes[fish].update(...)) { free(atlas); splice(fish, 1) }
UpdateFish ==
    /\ pc = "fish"
    /\ \E dead \in BOOLEAN :
         /\ updates' = Append(updates, [fish |-> At(fishes, fish), dead |-> dead])
         /\ IF dead
            THEN /\ freeCount' = [freeCount EXCEPT ![At(fishes, fish)] = @ + 1]
                 /\ fishes' = Splice(fishes, fish)
            ELSE UNCHANGED <<freeCount, fishes>>
    /\ pc' = "outer"
    /\ UNCHANGED <<capacity, created, fish, other, last, returned,
                   tickStart, interacts, pondTicks, pondFrames>>

\* Pond.render(renderer, time)
PondRender ==
    /\ pc = "idle"
    /\ \E time \in Times :
         pondFrames' = LastTwo(pondFrames,
                               [time |-> time,
                                calls |-> <<[callee |-> "constraint", time |-> -1]>> \o
                                          [k \in 1..Len(fishes) |->
                                             [callee |-> fishes[k], time |-> time]]])
    /\ last' = "render"
    /\ returned' = Void
    /\ UNCHANGED <<capacity, fishes, created, pc, fish, other,
                   tickStart, interacts, updates, freeCount, pondTicks>>

\* The interact call of the inner loop throws: nothing in Pond.update catches
\* it, so both loops are left and the exception reaches the caller.
InteractThrows ==
    /\ pc = "inner"
    /\ InnerContinues(other)
    /\ other' = other - 1
    /\ interacts' = Append(interacts, InteractCall(fish, other - 1))
    /\ pc' = "idle"
    /\ last' = "update"
    /\ returned' = "threw"
    /\ UNCHANGED <<capacity, fishes, created, fish,
                   tickStart, updates, freeCount, pondTicks, pondFrames>>

\* ------------------------------------------------------ numbers (IEEE doubles)
\* Coordinates are exact integers (hundredths of a unit).  The two values of a
\* double that the integers lack are kept apart from every coordinate the
\* bounds allow: NaN, and undefined (an empty array slot or a read past the
\* end of an array, which arithmetic turns into NaN).
NaN == 0 - 1000000
Undefined == 0 - 1000001

IsNumber(a) == a # NaN /\ a # Undefined

Abs(a) == IF a < 0 THEN 0 - a ELSE a

Add(a, b) == IF IsNumber(a) /\ IsNumber(b) THEN a + b ELSE NaN

Sub(a, b) == IF IsNumber(a) /\ IsNumber(b) THEN a - b ELSE NaN

Mul(a, b) == IF IsNumber(a) /\ IsNumber(b) THEN a * b ELSE NaN

\* a / b where the quotient is a whole number; 0 / 0 is NaN (the model divides
\* by 0 only where the numerator is 0 as well)
Div(a, b) ==
    IF ~(IsNumber(a) /\ IsNumber(b)) \/ b = 0
    THEN NaN
    ELSE CHOOSE q \in {a \div b} : q * b = a

\* Math.sqrt(a * a + b * b) where the root is a whole number
Hypot(a, b) ==
    IF ~(IsNumber(a) /\ IsNumber(b))
    THEN NaN
    ELSE CHOOSE r \in (IF Abs(a) > Abs(b) THEN Abs(a) ELSE Abs(b))..(Abs(a) + Abs(b)) :
           r * r = a * a + b * b

\* array[index] with a 0-based index: undefined outside the array
Read(array, index) ==
    IF (index + 1) \in DOMAIN array THEN array[index + 1] ELSE Undefined

\* ------------------------------------------------------------ Body (body.js)
Vec(x, y) == [x |-> x, y |-> y]

\* no Body.render call since the last tick
NoFrame == [time |-> 0 - 1, commands |-> <<>>]

\* an empty slot of `new Array(n)`
Empty == Vec(Undefined, Undefined)

\* Math.ceil(a / b) for a >= 0, b > 0
Ceil(a, b) == (a + b - 1) \div b

\* this.spine.length as the constructor sets it
Segments(length) == Ceil(length, RESOLUTION) + 1

\* the lengths a body is constructed with: those whose spacing is a whole
\* number of hundredths
Lengths ==
    {l \in {(RESOLUTION * k) \div 2 : k \in 1..MaxHalfSteps} :
       l % (Segments(l) - 1) = 0}

\* the thickness argument, and the pattern and atlas pixel size
Thicknesses == {4}
Pattern == [slot |-> Vec(10, 20), size |-> Vec(62, 8)]
AtlasPixel == Vec(1, 1)

\* the head moves along the x axis by this many spacings in one tick
Steps == {0 - 1, 0, 1}

\* the speeds of a tick, as the phase increment SWIM_SPEED * speed in quarter
\* turns: at rest, a quarter turn, three quarters, more than two full turns
Speeds == {0, 1, 3, 9}

\* unit vectors along the x axis: the directions the model's bodies swim in
Directions == {Vec(1, 0), Vec(0 - 1, 0)}

\* (num / den) ** SPRING_POWER in thousandths, SPRING_POWER = 1.7; 0 / 0 is NaN
Pow17(num, den) ==
    IF den = 0 THEN NaN
    ELSE IF num = 0 THEN 0
    ELSE IF num = den THEN 1000
    ELSE IF 2 * num = den THEN 308
    ELSE IF 3 * num = den THEN 154
    ELSE IF 3 * num = 2 * den THEN 502
    ELSE IF 4 * num = den THEN 95
    ELSE IF 4 * num = 3 * den THEN 613
    ELSE (1000 * num * num) \div (den * den)

\* a faulty allocation: one spring too few, as for the V radii
makeSprings_short(n) ==
    [spring \in 1..(n - 2) |-> SPRING_START]

\* makeSprings(start, end, power) for a spine of n segments, in hundredths
\* (rounded to the nearest hundredth)
makeSprings(n) ==
    [spring \in 1..(n - 1) |->
       LET pow == Pow17(spring - 1, n - 2)
       IN  IF pow = NaN
           THEN NaN
           ELSE SPRING_START + ((SPRING_END - SPRING_START) * pow + 500) \div 1000]

\* makeRadii(thickness, power)
makeRadii(n, thickness) == [segment \in 1..n |-> thickness \div 2]

\* makeU(atlasPixel), in whole atlas units
makeU(n, atlasPixel) ==
    LET uStart == Pattern.slot.x + atlasPixel.x
        uEnd == Pattern.slot.x + Pattern.size.x - atlasPixel.y
    IN  [segment \in 1..n |-> uStart + ((uEnd - uStart) * (segment - 1)) \div (n - 1)]

\* makeVRadii(atlasPixel)
makeVRadii(n, atlasPixel) ==
    [segment \in 1..(n - 2) |-> Pattern.size.y \div 2 - atlasPixel.y]

\* new Body(pattern, atlasPixel, length, thickness)
BodyInit ==
    /\ bodyLength \in Lengths
    /\ \E thickness \in Thicknesses :
         LET n == Segments(bodyLength)
         IN  /\ spine = [segment \in 1..n |-> Empty]
             /\ spinePrevious = [segment \in 1..n |-> Empty]
             /\ spacing = bodyLength \div (n - 1)
             /\ radii = makeRadii(n, thickness)
             /\ springs = makeSprings(n)
             /\ u = makeU(n, AtlasPixel)
             /\ vCenter = Pattern.slot.y + Pattern.size.y \div 2
             /\ vRadii = makeVRadii(n, AtlasPixel)
    /\ phase = 0
    /\ bodyLast = "new"
    /\ bodyTicks = 0
    /\ bodyFrame = NoFrame
    /\ bodyHead = Empty

\* the loop of initializeSpine from `segment` on
RECURSIVE InitializeFrom(_, _, _)
InitializeFrom(sp, segment, direction) ==
    IF segment >= Len(sp)
    THEN sp
    ELSE InitializeFrom(
           [sp EXCEPT ![segment + 1] =
              Vec(Sub(sp[segment].x, Mul(direction.x, spacing)),
                  Sub(sp[segment].y, Mul(direction.y, spacing)))],
           segment + 1, direction)

\* Body.initializeSpine(head, direction), with the head at the origin
InitializeSpine ==
    /\ \E direction \in Directions :
         /\ bodyHead' = Vec(0, 0)
         /\ spine' = InitializeFrom([spine EXCEPT ![1] = bodyHead'], 1, direction)
         /\ spinePrevious' = spine'
    /\ bodyLast' = "initializeSpine"
    /\ bodyFrame' = NoFrame
    /\ UNCHANGED <<spacing, radii, springs, u, vCenter, vRadii, phase,
                   bodyLength, bodyTicks>>

\* the loop of Body.update over the segments from `segment` on, with the
\* direction (xDir, yDir) handed down the chain.  (dx, dy) is held multiplied
\* by 100 once the spring term in hundredths is added; dx / distance is the
\* same for it.
RECURSIVE Relax(_, _, _, _)
Relax(sp, segment, xDir, yDir) ==
    IF segment >= Len(sp)
    THEN sp
    ELSE LET before == sp[segment]
             here == sp[segment + 1]
             dx == Sub(here.x, before.x)
             dy == Sub(here.y, before.y)
             distance == Hypot(dx, dy)
             dxc == Sub(Add(before.x, Mul(xDir, spacing)), here.x)
             dyc == Sub(Add(before.y, Mul(yDir, spacing)), here.y)
             dxs == Add(Mul(100, dx), Mul(dxc, Read(springs, segment - 1)))
             dys == Add(Mul(100, dy), Mul(dyc, Read(springs, segment - 1)))
             distances == Hypot(dxs, dys)
         IN  Relax([sp EXCEPT ![segment + 1] =
                      Vec(Add(before.x, Div(Mul(spacing, dxs), distances)),
                          Add(before.y, Div(Mul(spacing, dys), distances)))],
                   segment + 1, Div(dx, distance), Div(dy, distance))

\* if ((this.phase += ...) > Math.PI * 2) this.phase -= Math.PI * 2
Wrap(p) == IF p > TwoPi THEN p - TwoPi ELSE p

\* storePreviousState(): every entry of the previous spine is set to the
\* coordinates of the entry of the current spine
storePreviousState(previous, current) ==
    [segment \in DOMAIN previous |-> Vec(current[segment].x, current[segment].y)]

\* a faulty snapshot: the previous spine holds the Vector2 objects of the
\* spine itself, so it shows what update wrote afterwards
PreviousAfterWrites_aliased(stored, written) == written

\* this.spinePrevious once update has written the head and the segments of
\* this.spine: its entries are Vector2 objects of their own (copy() in
\* initializeSpine, set() in storePreviousState), so it is as stored
PreviousAfterWrites(stored, written) == stored

\* Body.update(head, direction, speed).  The speed is given by the phase
\* increment SWIM_SPEED * speed it makes, in quarter turns, and by the swing
\* cos(phase) * speedFactor * SWIM_AMPLITUDE it makes, in half turns: the
\* angle direction.angle() + PI + swing is then a whole number of half turns,
\* and its cosine and sine are exact.  On a spine that was never initialized
\* storePreviousState throws on the first empty slot and nothing changes.
BodyUpdate ==
    /\ bodyLast \in {"initializeSpine", "update", "render"}
    /\ bodyTicks < MaxBodyTicks
    /\ \E step \in Steps, direction \in Directions,
          swing \in {0, 1}, speed \in Speeds :
         LET head == Vec(Add(spine[1].x, step * spacing), spine[1].y)
             halfTurns == (IF direction.x > 0 THEN 0 ELSE 1) + 1 + swing
             xDir == IF halfTurns % 2 = 0 THEN 1 ELSE 0 - 1
             yDir == 0
         IN  /\ bodyHead' = head
             /\ spine' = Relax([spine EXCEPT ![1] = head], 1, xDir, yDir)
             /\ spinePrevious' =
                  PreviousAfterWrites(storePreviousState(spinePrevious, spine), spine')
             /\ phase' = Wrap(phase + speed)
    /\ bodyTicks' = bodyTicks + 1
    /\ bodyLast' = "update"
    /\ bodyFrame' = NoFrame
    /\ UNCHANGED <<spacing, radii, springs, u, vCenter, vRadii, bodyLength>>

\* the position of segment `segment` (0-based) at interpolation factor
\* time / TimeDen, multiplied by TimeDen
Interpolated(segment, time) ==
    Vec(Add(Mul(TimeDen, spinePrevious[segment + 1].x),
            Mul(Sub(spine[segment + 1].x, spinePrevious[segment + 1].x), time)),
        Add(Mul(TimeDen, spinePrevious[segment + 1].y),
            Mul(Sub(spine[segment + 1].y, spinePrevious[segment + 1].y), time)))

\* the two drawStrip calls of segment `segment` (0-based, >= 1); coordinates
\* multiplied by TimeDen * spacing
Strips(segment, time) ==
    LET end == Interpolated(segment, time)
        start == Interpolated(segment - 1, time)
        dxEnd == Sub(end.x, start.x)
        dyEnd == Sub(end.y, start.y)
        radius == Read(radii, segment)
    IN  << [cmd |-> "drawStrip",
            x |-> Sub(Mul(spacing, end.x), Mul(radius, dyEnd)),
            y |-> Add(Mul(spacing, end.y), Mul(radius, dxEnd)),
            u |-> Read(u, segment),
            v |-> Sub(vCenter, Read(vRadii, segment - 1))],
           [cmd |-> "drawStrip",
            x |-> Add(Mul(spacing, end.x), Mul(radius, dyEnd)),
            y |-> Sub(Mul(spacing, end.y), Mul(radius, dxEnd)),
            u |-> Read(u, segment),
            v |-> Add(vCenter, Read(vRadii, segment - 1))] >>

\* the loop of Body.render from `segment` on
RECURSIVE StripsFrom(_, _)
StripsFrom(segment, time) ==
    IF segment >= Len(spine)
    THEN <<>>
    ELSE Strips(segment, time) \o StripsFrom(segment + 1, time)

\* the renderer commands of Body.render(renderer, time / TimeDen)
Commands(time) ==
    << [cmd |-> "cutStrip",
        x |-> Mul(spacing, Interpolated(0, time).x),
        y |-> Mul(spacing, Interpolated(0, time).y),
        u |-> Read(u, 0),
        v |-> vCenter] >> \o StripsFrom(1, time)

\* what a Body.render(renderer, time / TimeDen) call leaves with the renderer
Frame(time) == [time |-> time, commands |-> Commands(time)]

\* a faulty render: it takes the snapshot that update is to take
BodyRender_storing ==
    /\ bodyLast \in {"initializeSpine", "update", "render"}
    /\ \E time \in Times :
         bodyFrame' = Frame(time)
    /\ spinePrevious' = spine
    /\ bodyLast' = "render"
    /\ UNCHANGED <<spine, spacing, radii, springs, u, vCenter, vRadii, phase,
                   bodyLength, bodyTicks, bodyHead>>

\* Body.render(renderer, time); on a spine that was never initialized the
\* first read of spinePrevious[0].x throws and no command is emitted
BodyRender ==
    /\ bodyLast \in {"initializeSpine", "update", "render"}
    /\ \E time \in Times :
         bodyFrame' = Frame(time)
    /\ bodyLast' = "render"
    /\ UNCHANGED <<bodyState, bodyLength, bodyTicks, bodyHead>>

\* ------------------------------------------------------------ specification
\* A run drives one of the two objects, the other stays as first constructed.
Init ==
    /\ scene \in {"pond", "body"}
    /\ PondInit
    /\ BodyInit
    /\ scene = "pond" => bodyLength = RESOLUTION
    /\ scene = "body" => capacity = 0

OnPond(step) == scene = "pond" /\ step /\ UNCHANGED <<bodyVars, scene>>

OnBody(step) == scene = "body" /\ step /\ UNCHANGED <<pondVars, scene>>

Next ==
    \/ OnPond(CanSpawn)
    \/ OnPond(CanDrop)
    \/ OnPond(AddFish)
    \/ OnPond(UpdateBegin)
    \/ OnPond(UpdateOuter)
    \/ OnPond(UpdateInner)
    \/ OnPond(UpdateFish)
    \/ OnPond(PondRender)
    \/ OnBody(InitializeSpine)
    \/ OnBody(BodyUpdate)
    \/ OnBody(BodyRender)

Spec == Init /\ [][Next]_vars

\* The same, with interact calls that may throw.
ThrowNext ==
    \/ Next
    \/ OnPond(InteractThrows)

ThrowSpec == Init /\ [][ThrowNext]_vars

\* ------------------------------------------------------------ pond claims
Range(seq) == {seq[k] : k \in DOMAIN seq}

\* Pond.update is between its first and its last statement
InUpdate == pc \in {"outer", "inner", "fish"}

\* Pond.update was the last method to return
UpdateReturned == pc = "idle" /\ last = "update"

\* the fish whose update() returned `dead` during the current / last tick
Reported(dead) == {updates[k].fish : k \in {n \in DOMAIN updates : updates[n].dead = dead}}

\* C1: with addFish called only right after canSpawn() or canDrop() returned
\* true, the pond never holds more than capacity fish, and Pond.update never
\* holds more fish than it started the tick with.
C1_CapacityBound ==
    /\ Len(fishes) <= capacity
    /\ (InUpdate \/ UpdateReturned) => Len(fishes) <= Len(tickStart)

\* a full pond of three, refilled after a death in an earlier tick
C1_Witness ==
    /\ capacity >= 3
    /\ Len(fishes) = capacity
    /\ last = "addFish"
    /\ pondTicks >= 1
    /\ \E f \in Fish : freeCount[f] > 0

\* C2: canSpawn() returns false exactly when count >= capacity - SPAWN_OVERHEAD,
\* canDrop() returns false exactly when count >= capacity; the count is the
\* same after the call as before it (the value returned is compared with the
\* pond as it is once the call has returned).
C2_GateThresholds ==
    /\ (pc = "idle" /\ last = "canSpawn") =>
          ((returned = FALSE) <=> (Len(fishes) >= capacity - SPAWN_OVERHEAD))
    /\ (pc = "idle" /\ last = "canDrop") =>
          ((returned = FALSE) <=> (Len(fishes) >= capacity))

\* canSpawn() refuses at the edge of the reserve where canDrop() would accept
C2_Witness ==
    /\ pc = "idle"
    /\ last = "canSpawn"
    /\ returned = FALSE
    /\ Len(fishes) = capacity - SPAWN_OVERHEAD
    /\ Len(fishes) > 0
    /\ canDrop

\* C3: a tick that began with N fish makes N*(N-1)/2 interact calls, one for
\* every unordered pair of those fish, whichever of them die.
C3_PairCoverage ==
    UpdateReturned =>
      /\ 2 * Len(interacts) = Len(tickStart) * (Len(tickStart) - 1)
      /\ \A a, b \in Range(tickStart) :
            a # b =>
              Cardinality({k \in DOMAIN interacts :
                             {interacts[k].initiator, interacts[k].other} = {a, b}}) = 1

\* a tick over three or more fish in which some died and some survived
C3_Witness ==
    /\ UpdateReturned
    /\ Len(tickStart) >= 3
    /\ Reported(TRUE) # {}
    /\ Reported(FALSE) # {}

\* C4: a fish whose update() returned true is out of the live set from then
\* on, and free(atlas) was called on it once, and on no fish twice.
C4_DeathRemoval ==
    /\ \A f \in Reported(TRUE) : f \notin Range(fishes) /\ freeCount[f] = 1
    /\ \A f \in Fish : freeCount[f] <= 1
    /\ \A f \in Fish : freeCount[f] = 1 => f \notin Range(fishes)

\* a fish died in the first tick and a second tick over other fish has ended
C4_Witness ==
    /\ UpdateReturned
    /\ pondTicks = 2
    /\ tickStart # <<>>
    /\ \E f \in Fish : freeCount[f] = 1 /\ f \notin Range(tickStart)

\* C5: fish leave the pond only by their own update() reporting death.
\* Fish that reported false are still in the pond, the pond after a tick is
\* the tick's initial sequence with the dead fish taken out, the pond stays
\* in spawn order, a fish in the pond was never freed, and a fish that is
\* not in the pond was freed.
C5_OnlyDeathRemoves ==
    /\ Reported(FALSE) \subseteq Range(fishes)
    /\ UpdateReturned =>
          fishes = SelectSeq(tickStart, LAMBDA f : f \notin Reported(TRUE))
    /\ \A k \in 1..(Len(fishes) - 1) : fishes[k] < fishes[k + 1]
    /\ \A f \in Range(fishes) : freeCount[f] = 0
    /\ \A f \in 1..created : f \notin Range(fishes) => freeCount[f] >= 1

\* a middle fish died, its neighbours survived, and a fish was added after
C5_Witness ==
    /\ last = "addFish"
    /\ Len(tickStart) >= 3
    /\ tickStart[2] \in Reported(TRUE)
    /\ {tickStart[1], tickStart[3]} \subseteq Reported(FALSE)
    /\ Len(fishes) >= 3

\* C10: an exception thrown by one interact call is isolated: the tick still
\* makes every remaining interact call and updates every fish it began with.
C10_FailureIsolated ==
    UpdateReturned =>
      /\ 2 * Len(interacts) = Len(tickStart) * (Len(tickStart) - 1)
      /\ Len(updates) = Len(tickStart)

\* C11: every fish that is in the pond when Pond.update starts has its
\* update() called exactly once in the tick, in reverse index order, whichever
\* fish die: the k-th update call of a tick is made on the k-th fish from the
\* end of the tick's initial sequence, and a tick that has returned has made
\* one call per fish.
C11_EachFishUpdatedOnce ==
    /\ (InUpdate \/ UpdateReturned) =>
          /\ Len(updates) <= Len(tickStart)
          /\ \A k \in DOMAIN updates :
                updates[k].fish = tickStart[Len(tickStart) - k + 1]
    /\ UpdateReturned => Len(updates) = Len(tickStart)

\* a tick over three or more fish in which the last two died and were spliced
\* out before the first was reached
C11_Witness ==
    /\ UpdateReturned
    /\ Len(tickStart) >= 3
    /\ tickStart[Len(tickStart)] \in Reported(TRUE)
    /\ tickStart[Len(tickStart) - 1] \in Reported(TRUE)
    /\ tickStart[1] \in Reported(FALSE)

\* every interact call is made by a fish on a fish at a lower index, and the
\* indices are those the two fish had when the tick began
InitiatorAbove ==
    \A k \in DOMAIN interacts :
      /\ interacts[k].j < interacts[k].i
      /\ interacts[k].j >= 0
      /\ interacts[k].i < Len(tickStart)
      /\ interacts[k].initiator = tickStart[interacts[k].i + 1]
      /\ interacts[k].other = tickStart[interacts[k].j + 1]

\* initiators are taken in descending index order
OuterDescending ==
    \A k \in 1..(Len(interacts) - 1) : interacts[k + 1].i <= interacts[k].i

\* C12 as stated: descending outer, ascending inner.  The first call of an
\* initiator is on index 0 and each further call of the same initiator is on
\* the next higher index.
C12_AscendingInner ==
    (InUpdate \/ UpdateReturned) =>
      /\ InitiatorAbove
      /\ OuterDescending
      /\ interacts # <<>> => interacts[1].j = 0
      /\ \A k \in 1..(Len(interacts) - 1) :
            IF interacts[k + 1].i = interacts[k].i
            THEN interacts[k + 1].j = interacts[k].j + 1
            ELSE interacts[k + 1].j = 0

\* C12 amended: descending outer, descending inner.  The first call of the
\* tick is made by the last fish on the fish before it; after the call (i, j)
\* comes (i, j - 1), or (i - 1, i - 2) once j has reached 0; the initiator is
\* always the fish at the higher index.
C12_DescendingInner ==
    (InUpdate \/ UpdateReturned) =>
      /\ InitiatorAbove
      /\ OuterDescending
      /\ interacts # <<>> =>
            /\ interacts[1].i = Len(tickStart) - 1
            /\ interacts[1].j = Len(tickStart) - 2
      /\ \A k \in 1..(Len(interacts) - 1) :
            IF interacts[k].j > 0
            THEN /\ interacts[k + 1].i = interacts[k].i
                 /\ interacts[k + 1].j = interacts[k].j - 1
            ELSE /\ interacts[k + 1].i = interacts[k].i - 1
                 /\ interacts[k + 1].j = interacts[k].i - 2

\* a returned tick over four fish, with a death, so all six calls were made
C12_Witness ==
    /\ UpdateReturned
    /\ Len(tickStart) = 4
    /\ Len(interacts) = 6
    /\ Reported(TRUE) # {}

\* ------------------------------------------------------------ body claims
\* the spine has been initialized
Initialized == bodyLast # "new"

\* C6: after any sequence of Body.update calls the phase is at least 0 and
\* less than a full turn.
C6_PhaseInRange == 0 <= phase /\ phase < TwoPi

\* C7: once the spine is initialized, every segment lies at the distance
\* spacing from the segment before it.
C7_SpacingPreserved ==
    Initialized =>
      \A segment \in 2..Len(spine) :
        Hypot(Sub(spine[segment].x, spine[segment - 1].x),
              Sub(spine[segment].y, spine[segment - 1].y)) = spacing

\* C8: spine and spinePrevious keep the ceil(length / RESOLUTION) + 1 entries
\* of the constructor, and there is one spring fewer.
C8_SegmentCounts ==
    /\ Len(spine) = Segments(bodyLength)
    /\ Len(spinePrevious) = Segments(bodyLength)
    /\ Len(springs) = Segments(bodyLength) - 1

\* a body longer than two resolutions and a half, updated twice and rendered
C8_Witness ==
    /\ scene = "body"
    /\ bodyLength > 2 * RESOLUTION
    /\ Len(spine) = 4
    /\ bodyTicks >= 2
    /\ bodyLast = "render"

\* the frame the renderer holds is the one a render call with the same time
\* would produce now
BodyFrameCurrent == bodyFrame # NoFrame => bodyFrame = Frame(bodyFrame.time)

\* two Pond.render calls with the same time and no pond change in between
\* made the same calls
PondFramesAgree ==
    (Len(pondFrames) = 2 /\ pondFrames[1].time = pondFrames[2].time)
      => pondFrames[1].calls = pondFrames[2].calls

\* C9: rendering changes no simulation state (Body.render leaves the spine,
\* the previous spine, the phase and the per-segment arrays alone, Pond.render
\* leaves the fish alone), and rendering again with the same time gives the
\* same commands.
C9_RenderIsPure ==
    /\ [](BodyFrameCurrent /\ PondFramesAgree)
    /\ [][/\ bodyLast' = "render" => UNCHANGED bodyState
          /\ (pc = "idle" /\ pc' = "idle" /\ last' = "render")
               => UNCHANGED <<fishes, capacity>>]_vars

\* a moving body of three or more segments rendered half way between two ticks
C9_Witness ==
    /\ scene = "body"
    /\ bodyLast = "render"
    /\ bodyFrame.time > 0
    /\ bodyFrame.time < TimeDen
    /\ Len(spine) >= 3
    /\ spine[1] # spinePrevious[1]
    /\ spine[3] # spinePrevious[3]

\* C13: a Body.update call leaves in spinePrevious the spine as it was right
\* before the call, whatever the call wrote to the spine, and leaves the head
\* argument in spine[0]; initializeSpine leaves the two spines equal.
C13_PreviousIsSnapshot ==
    [][/\ bodyTicks' = bodyTicks + 1 =>
            /\ spinePrevious' = spine
            /\ spine'[1] = bodyHead'
       /\ (bodyLast' = "initializeSpine" /\ bodyTicks' = bodyTicks) =>
            /\ spinePrevious' = spine'
            /\ spine'[1] = bodyHead']_vars

\* a second update moved the head and every other segment of a body of three
\* or more segments, and the previous spine differs from the spine everywhere
C13_Witness ==
    /\ scene = "body"
    /\ bodyLast = "update"
    /\ bodyTicks >= 2
    /\ Len(spine) >= 3
    /\ \A segment \in DOMAIN spine :
         /\ IsNumber(spine[segment].x)
         /\ spine[segment] # spinePrevious[segment]

\* C14: a render of a body of N segments emits one cutStrip followed by two
\* drawStrip calls for each of the segments 1..N-1, every index it reads in
\* u, radii and vRadii lies within the array as constructed, and every
\* emitted texture coordinate is a number.
C14_StripsDefined ==
    (scene = "body" /\ bodyFrame # NoFrame) =>
        LET commands == bodyFrame.commands
        IN  /\ Len(commands) = 1 + 2 * (Len(spine) - 1)
            /\ commands[1].cmd = "cutStrip"
            /\ \A k \in 2..Len(commands) : commands[k].cmd = "drawStrip"
            /\ \A segment \in 1..(Len(spine) - 1) :
                 /\ segment + 1 \in DOMAIN u
                 /\ segment + 1 \in DOMAIN radii
                 /\ segment \in DOMAIN vRadii
            /\ \A k \in DOMAIN commands :
                 /\ IsNumber(commands[k].u)
                 /\ IsNumber(commands[k].v)

\* C15: once free(atlas) was called on a fish, the pond makes no further call
\* on it: every interact call is between two fish that were never freed, every
\* update call is on a fish that was never freed, and a render pass (whose
\* first call is the constraint's render) calls render only on fish that
\* were never freed.
C15_NoCallAfterFree ==
    [][/\ Len(interacts') = Len(interacts) + 1 =>
            /\ freeCount[interacts'[Len(interacts')].initiator] = 0
            /\ freeCount[interacts'[Len(interacts')].other] = 0
       /\ Len(updates') = Len(updates) + 1 =>
            freeCount[updates'[Len(updates')].fish] = 0
       /\ (pc = "idle" /\ pc' = "idle" /\ last' = "render") =>
            \A k \in 2..Len(pondFrames'[Len(pondFrames')].calls) :
                freeCount[pondFrames'[Len(pondFrames')].calls[k].callee] = 0]_vars

\* a fish was freed in the first tick; in the second tick the fish at the
\* highest index was freed, then the fish below it interacted and were
\* updated, and a render pass over the fish that are left followed
C15_Witness ==
    /\ pc = "idle"
    /\ last = "render"
    /\ pondTicks = 2
    /\ \E f \in Fish : freeCount[f] = 1 /\ f \notin Range(tickStart)
    /\ Len(tickStart) >= 3
    /\ freeCount[tickStart[Len(tickStart)]] = 1
    /\ Len(updates) = Len(tickStart)
    /\ interacts # <<>>
    /\ Len(pondFrames[Len(pondFrames)].calls) >= 3

====
